---- MODULE Spec2Model ----
(***************************************************************************)
(* Model of price_estimator: the GeoDVFDataset download cache              *)
(* (src/src/price_estimator/datasets/geo_dvf.py) and the geocoding helpers *)
(* (src/src/price_estimator/tools/geolocation.py).                         *)
(*                                                                         *)
(* The program is single-threaded: every method call is one action, and    *)
(* what the environment answers (HTTP statuses, the geocoder's outcome) is *)
(* an input of the action.  Strings are TLA+ strings built with \o, so     *)
(* that URL and path formatting is computed, not assumed.                  *)
(***************************************************************************)
EXTENDS Integers, Sequences, FiniteSets, TLC

VARIABLES
    self,   \* the GeoDVFDataset object the caller holds (its attributes)
    dirs,   \* directories that exist on the filesystem
    disk,   \* regular files on the filesystem: path -> content
    last,   \* what the most recent call did: return value, exception, I/O log
    heap    \* list objects by identity, and the instances that refer to them

vars == <<self, dirs, disk, last, heap>>

----------------------------------------------------------------------------
(* Bounds of the model. *)

MaxYears == 2      \* longest `year` list passed to the constructor
MaxDepts == 2      \* longest explicit `departments` list passed to the constructor
MaxInstances == 3  \* objects constructed while list identity is followed
MaxListLen == 5    \* longest a departments list is grown by its holder

YearVals == {2022, 2023}
DeptVals == {75, 92}

\* Integers over which the pure path and URL functions are compared.
PathInts == (-12 .. 12) \cup {75, 92, 2022, 2023}

----------------------------------------------------------------------------
(* Python values that cross the API: a type tag and a payload. *)

PyInt(n) == [t |-> "int", v |-> n]
PyStrElem(n) == [t |-> "str", v |-> n]      \* the str whose text is the decimal n
PyListOf(es) == [t |-> "list", v |-> es]
PyTupleOf(es) == [t |-> "tuple", v |-> es]

PyNone == [t |-> "NoneType", v |-> ""]
PyStr(s) == [t |-> "str", v |-> s]
PyFloat(s) == [t |-> "float", v |-> s]

\* isinstance(x, list) and isinstance(e, int)
IsList(x) == x.t = "list"
IsInt(e) == e.t = "int"

\* all(isinstance(e, int) for e in xs)
AllInts(xs) == \A i \in 1 .. Len(xs.v) : IsInt(xs.v[i])

\* the list of ints a validated argument holds
IntsOf(xs) == [i \in 1 .. Len(xs.v) |-> xs.v[i].v]

----------------------------------------------------------------------------
(* str(int), as the f-strings apply it. *)

Digits == <<"0", "1", "2", "3", "4", "5", "6", "7", "8", "9">>

RECURSIVE NatToStr(_)
NatToStr(n) ==
    IF n < 10 THEN Digits[n + 1]
    ELSE NatToStr(n \div 10) \o Digits[(n % 10) + 1]

IntToStr(n) == IF n < 0 THEN "-" \o NatToStr(0 - n) ELSE NatToStr(n)

\* Every integer the model formats, formatted once.
Formatted ==
    [n \in PathInts \cup YearVals \cup DeptVals \cup {200, 404, 500}
            \cup (0 .. MaxYears * MaxDepts) |-> IntToStr(n)]

str(n) == Formatted[n]

----------------------------------------------------------------------------
(* Program constants. *)

DefaultDepartments == <<75, 92, 93, 94>>
DefaultDatasetUrl == "https://files.data.gouv.fr/geo-dvf/latest/csv"
TempDir == "/tmp"                 \* tempfile.gettempdir()
Cwd == "/work"                    \* the directory relative paths resolve against
HTTP_OK == 200

\* Path(a) / b
PathJoin(a, b) == a \o "/" \o b

\* Path(storage_path).resolve() of a relative path
Resolve(p) == PathJoin(Cwd, p)

----------------------------------------------------------------------------
(* URL and path derivation. *)

\* The default storage directory: Path(tempfile.gettempdir()) / "geo_dvf_cache"
TempCache == PathJoin(TempDir, "geo_dvf_cache")

_get_filename(year, department) == str(department) \o ".csv.gz"

\* f"{year}_{filename}" under a storage directory and the URL under a base
\* URL, formatted once for every directory, base URL and pair of the model.
FilepathTable ==
    [root \in {TempCache} |-> [year \in PathInts |-> [department \in PathInts |->
        PathJoin(root, str(year) \o "_" \o _get_filename(year, department))]]]

UrlTable ==
    [url \in {DefaultDatasetUrl} |-> [year \in PathInts |-> [department \in PathInts |->
        url \o "/" \o str(year) \o "/departements/" \o str(department)
            \o ".csv.gz"]]]

\* A path that leaves the year out.
_get_filepath_noyear(obj, year, department) ==
    PathJoin(obj.storage_path, _get_filename(year, department))

_get_filepath(obj, year, department) ==
    FilepathTable[obj.storage_path][year][department]

_get_url(obj, year, department) == UrlTable[obj.url][year][department]

----------------------------------------------------------------------------
(* The filesystem. *)

\* Path.exists(): a regular file or a directory
Exists(fs, ds, p) == p \in DOMAIN fs \/ p \in ds

\* open(p, "wb").write(content)
WriteFile(fs, p, content) ==
    [q \in (DOMAIN fs) \cup {p} |-> IF q = p THEN content ELSE fs[q]]

\* Path.unlink() of an existing regular file
Unlink(fs, p) == [q \in (DOMAIN fs) \ {p} |-> fs[q]]

\* response.content of a 200 response to GET url
Body(url) == <<"body of", url>>

\* pd.read_csv(file, compression="gzip"): the rows a file's content parses to
Rows(content) == [t |-> "rows", v |-> content[2]]

----------------------------------------------------------------------------
(* What a call reports: one record shape for every operation. *)

Result(op, args) ==
    [op |-> op,             \* the function or method called
     args |-> args,         \* its arguments
     raised |-> "",         \* class of the exception that left the call, "" if none
     msg |-> "",            \* the exception's message
     printed |-> "",        \* the final line the call printed
     calls |-> <<>>,        \* calls made to the outside: requests.get, geocode, reverse
     downloaded |-> 0,      \* download(): downloaded_count
     skipped |-> 0,         \* download(): skipped_count
     files |-> <<>>,        \* open_db(), cleanup(): the list `files`
     ret |-> <<>>,          \* the returned value, as a sequence of Python values
     attrs |-> {},          \* __init__: names of the attributes it set
     again |-> FALSE,       \* the call before was a download() that returned normally
     retry |-> FALSE]       \* download(): the call before was a download() that raised

NoObject ==
    [constructed |-> FALSE, url |-> "", year |-> <<>>, departments |-> <<>>,
     storage_path |-> ""]

----------------------------------------------------------------------------
(* GeoDVFDataset.__init__ *)

ValueErrorResult(args, msg) ==
    [res |-> [Result("__init__", args) EXCEPT !.raised = "ValueError", !.msg = msg],
     obj |-> NoObject,
     mkdir |-> {}]

\* A constructor that validates `departments` only after the object is set up.
__init__late(year, departments, storage_path, dataset_url) ==
    LET args == <<year, departments, storage_path>> IN
    IF ~IsList(year) THEN
        ValueErrorResult(args, "Year must be a list of integers.")
    ELSE IF ~AllInts(year) THEN
        ValueErrorResult(args, "All elements in year must be integers.")
    ELSE
        LET sp == IF storage_path.t = "NoneType"
                  THEN TempCache
                  ELSE Resolve(storage_path.v)
            bad == ~IsList(departments) \/ ~AllInts(departments)
        IN  [res |-> [Result("__init__", args) EXCEPT
                        !.raised = IF bad THEN "ValueError" ELSE "",
                        !.msg = IF bad THEN "Departments must be a list of integers."
                                ELSE "",
                        !.attrs = {"url", "year", "storage_path"}
                                  \cup (IF bad THEN {} ELSE {"departments"})],
             obj |-> IF bad THEN NoObject
                     ELSE [constructed |-> TRUE, url |-> dataset_url,
                           year |-> IntsOf(year),
                           departments |-> IntsOf(departments),
                           storage_path |-> sp],
             mkdir |-> {sp}]

__init__(year, departments, storage_path, dataset_url) ==
    LET args == <<year, departments, storage_path>> IN
    IF ~IsList(year) THEN
        ValueErrorResult(args, "Year must be a list of integers.")
    ELSE IF ~AllInts(year) THEN
        ValueErrorResult(args, "All elements in year must be integers.")
    ELSE IF ~IsList(departments) THEN
        ValueErrorResult(args, "Departments must be a list of integers.")
    ELSE IF ~AllInts(departments) THEN
        ValueErrorResult(args, "All elements in departments must be integers.")
    ELSE
        LET deps == IF Len(departments.v) > 0 THEN IntsOf(departments) ELSE <<>>
            sp == IF storage_path.t = "NoneType"
                  THEN TempCache
                  ELSE Resolve(storage_path.v)
        IN  [res |-> [Result("__init__", args) EXCEPT
                        !.attrs = {"url", "year", "departments", "storage_path"}],
             obj |-> [constructed |-> TRUE, url |-> dataset_url,
                      year |-> IntsOf(year), departments |-> deps,
                      storage_path |-> sp],
             mkdir |-> {sp}]

----------------------------------------------------------------------------
(* The nested iteration every method runs:                                 *)
(*     for year in self.year: for department in self.departments           *)

RECURSIVE ForDepartments(_, _, _)
ForDepartments(year, departments, j) ==
    IF j > Len(departments) THEN <<>>
    ELSE << <<year, departments[j]>> >> \o ForDepartments(year, departments, j + 1)

RECURSIVE ForYears(_, _, _)
ForYears(years, departments, i) ==
    IF i > Len(years) THEN <<>>
    ELSE ForDepartments(years[i], departments, 1) \o ForYears(years, departments, i + 1)

\* The same loops with department outermost.
PairsDeptMajor(obj) ==
    LET byDept == ForYears(obj.departments, obj.year, 1)
    IN  [k \in 1 .. Len(byDept) |-> <<byDept[k][2], byDept[k][1]>>]

Pairs(obj) == ForYears(obj.year, obj.departments, 1)

----------------------------------------------------------------------------
(* GeoDVFDataset.get_urls *)

get_urls(obj) ==
    LET ps == Pairs(obj)
    IN  [k \in 1 .. Len(ps) |-> _get_url(obj, ps[k][1], ps[k][2])]

----------------------------------------------------------------------------
(* GeoDVFDataset.download *)

\* The servers' answers to one download() call: the first `ok` requests get
\* status 200 and the next one, if any, gets the status `bad` (not 200).
\* What would be answered after that is never asked.
StatusOf(env, n) == IF n <= env.ok THEN HTTP_OK ELSE env.bad

HttpCall(url, status) ==
    [fn |-> "requests.get", arg |-> <<url>>, out |-> str(status)]

\* An iteration that skips an existing file without counting it.
DownloadStepUncounted(obj, st, year, department, env) ==
    LET filepath == _get_filepath(obj, year, department) IN
    IF Exists(st.fs, st.dirs, filepath) THEN st
    ELSE
        LET url == _get_url(obj, year, department)
            status == StatusOf(env, Len(st.calls) + 1)
        IN  IF status = HTTP_OK THEN
                [st EXCEPT !.fs = WriteFile(@, filepath, Body(url)),
                           !.downloaded = @ + 1,
                           !.calls = Append(@, HttpCall(url, status))]
            ELSE
                [st EXCEPT !.raised = "RuntimeError",
                           !.msg = "Failed to download " \o url \o ": "
                                   \o str(status),
                           !.calls = Append(@, HttpCall(url, status))]

\* An iteration that fetches the file whether or not it is there.
DownloadStepAlways(obj, st, year, department, env) ==
    LET filepath == _get_filepath(obj, year, department)
        url == _get_url(obj, year, department)
        status == StatusOf(env, Len(st.calls) + 1)
    IN  IF status = HTTP_OK THEN
            [st EXCEPT !.fs = WriteFile(@, filepath, Body(url)),
                       !.downloaded = @ + 1,
                       !.calls = Append(@, HttpCall(url, status))]
        ELSE
            [st EXCEPT !.raised = "RuntimeError",
                       !.msg = "Failed to download " \o url \o ": "
                               \o str(status),
                       !.calls = Append(@, HttpCall(url, status))]

\* An iteration that writes what it received before it looks at the status.
DownloadStepWriteFirst(obj, st, year, department, env) ==
    LET filepath == _get_filepath(obj, year, department) IN
    IF Exists(st.fs, st.dirs, filepath) THEN
        [st EXCEPT !.skipped = @ + 1]
    ELSE
        LET url == _get_url(obj, year, department)
            status == StatusOf(env, Len(st.calls) + 1)
        IN  IF status = HTTP_OK THEN
                [st EXCEPT !.fs = WriteFile(@, filepath, Body(url)),
                           !.downloaded = @ + 1,
                           !.calls = Append(@, HttpCall(url, status))]
            ELSE
                [st EXCEPT !.fs = WriteFile(@, filepath, <<"error page of", url>>),
                           !.raised = "RuntimeError",
                           !.msg = "Failed to download " \o url \o ": "
                                   \o str(status),
                           !.calls = Append(@, HttpCall(url, status))]

\* One iteration of the loop body, on the loop's state st.
DownloadStep(obj, st, year, department, env) ==
    LET filepath == _get_filepath(obj, year, department) IN
    IF Exists(st.fs, st.dirs, filepath) THEN
        [st EXCEPT !.skipped = @ + 1]
    ELSE
        LET url == _get_url(obj, year, department)
            status == StatusOf(env, Len(st.calls) + 1)
        IN  IF status = HTTP_OK THEN
                [st EXCEPT !.fs = WriteFile(@, filepath, Body(url)),
                           !.downloaded = @ + 1,
                           !.calls = Append(@, HttpCall(url, status))]
            ELSE
                [st EXCEPT !.raised = "RuntimeError",
                           !.msg = "Failed to download " \o url \o ": "
                                   \o str(status),
                           !.calls = Append(@, HttpCall(url, status))]

\* A loop that notes a bad response and carries on with the next pair.
RECURSIVE DownloadLoopNoAbort(_, _, _, _, _)
DownloadLoopNoAbort(obj, pairs, k, st, env) ==
    IF k > Len(pairs) THEN st
    ELSE DownloadLoopNoAbort(obj, pairs, k + 1,
                             DownloadStep(obj, st, pairs[k][1], pairs[k][2], env),
                             env)

RECURSIVE DownloadLoop(_, _, _, _, _)
DownloadLoop(obj, pairs, k, st, env) ==
    IF k > Len(pairs) \/ st.raised # "" THEN st
    ELSE DownloadLoop(obj, pairs, k + 1,
                      DownloadStep(obj, st, pairs[k][1], pairs[k][2], env), env)

LoopStart(fs, ds) ==
    [fs |-> fs, dirs |-> ds, downloaded |-> 0, skipped |-> 0, calls |-> <<>>,
     raised |-> "", msg |-> ""]

\* A call that reports a failed response in its final print and returns.
DownloadResultSwallowed(st) ==
    [fs |-> st.fs,
     res |-> [Result("download", <<>>) EXCEPT
                !.calls = st.calls,
                !.downloaded = st.downloaded, !.skipped = st.skipped,
                !.printed = "Download complete: " \o str(st.downloaded)
                            \o " new files, " \o str(st.skipped)
                            \o " existing files"]]

\* A call that refuses to end on nothing done.
DownloadResultNonEmpty(st) ==
    [fs |-> st.fs,
     res |-> [Result("download", <<>>) EXCEPT
                !.raised = IF st.raised = "" /\ st.downloaded + st.skipped = 0
                           THEN "RuntimeError" ELSE st.raised,
                !.msg = IF st.raised = "" /\ st.downloaded + st.skipped = 0
                        THEN "Nothing to download" ELSE st.msg,
                !.calls = st.calls,
                !.downloaded = st.downloaded, !.skipped = st.skipped,
                !.printed = IF st.raised # "" \/ st.downloaded + st.skipped = 0
                            THEN ""
                            ELSE "Download complete: " \o str(st.downloaded)
                                 \o " new files, " \o str(st.skipped)
                                 \o " existing files"]]

\* What the call leaves: the files, and the exception or the final print.
DownloadResult(st) ==
    [fs |-> st.fs,
     res |-> [Result("download", <<>>) EXCEPT
                !.raised = st.raised, !.msg = st.msg, !.calls = st.calls,
                !.downloaded = st.downloaded, !.skipped = st.skipped,
                !.printed = IF st.raised # "" THEN ""
                            ELSE "Download complete: " \o str(st.downloaded)
                                 \o " new files, " \o str(st.skipped)
                                 \o " existing files"]]

\* A call that, when a response fails, puts the directory back as it found it.
download_rollback(obj, fs, ds, env) ==
    LET st == DownloadLoop(obj, Pairs(obj), 1, LoopStart(fs, ds), env)
    IN  DownloadResult(IF st.raised # "" THEN [st EXCEPT !.fs = fs] ELSE st)

download(obj, fs, ds, env) ==
    DownloadResult(DownloadLoop(obj, Pairs(obj), 1, LoopStart(fs, ds), env))

----------------------------------------------------------------------------
(* GeoDVFDataset.open_db *)

\* [p for p in paths if p.exists()], in order
RECURSIVE Existing(_, _, _, _)
Existing(fs, ds, paths, k) ==
    IF k > Len(paths) THEN <<>>
    ELSE (IF Exists(fs, ds, paths[k]) THEN <<paths[k]>> ELSE <<>>)
         \o Existing(fs, ds, paths, k + 1)

FilePaths(obj) ==
    LET ps == Pairs(obj)
    IN  [k \in 1 .. Len(ps) |-> _get_filepath(obj, ps[k][1], ps[k][2])]

\* An open_db that demands every configured file.
open_db_strict(obj, fs, ds) ==
    LET files == Existing(fs, ds, FilePaths(obj), 1) IN
    IF Len(files) < Len(FilePaths(obj)) \/ files = <<>> THEN
        [Result("open_db", <<>>) EXCEPT
            !.raised = "FileNotFoundError",
            !.msg = "No dataset files found in " \o obj.storage_path
                    \o ". Did you run download() first?"]
    ELSE
        [Result("open_db", <<>>) EXCEPT
            !.files = files,
            !.ret = [k \in 1 .. Len(files) |-> Rows(fs[files[k]])]]

open_db(obj, fs, ds) ==
    LET files == Existing(fs, ds, FilePaths(obj), 1) IN
    IF files = <<>> THEN
        [Result("open_db", <<>>) EXCEPT
            !.raised = "FileNotFoundError",
            !.msg = "No dataset files found in " \o obj.storage_path
                    \o ". Did you run download() first?"]
    ELSE
        \* pd.concat of the files read in order: the contents, in that order
        [Result("open_db", <<>>) EXCEPT
            !.files = files,
            !.ret = [k \in 1 .. Len(files) |-> Rows(fs[files[k]])]]

----------------------------------------------------------------------------
(* GeoDVFDataset.cleanup *)

\* for file in files: file.unlink()  -- unlink of a missing file raises
RECURSIVE UnlinkAll(_, _, _)
UnlinkAll(st, files, k) ==
    IF k > Len(files) \/ st.raised # "" THEN st
    ELSE IF files[k] \in DOMAIN st.fs THEN
        UnlinkAll([st EXCEPT !.fs = Unlink(@, files[k])], files, k + 1)
    ELSE
        [st EXCEPT !.raised = "FileNotFoundError",
                   !.msg = "[Errno 2] No such file or directory: '"
                           \o files[k] \o "'"]

\* A cleanup that empties the whole storage directory.
cleanup_all(obj, fs, ds) ==
    LET gone == {q \in DOMAIN fs : TRUE}
    IN  [fs |-> [q \in {} |-> <<>>],
         res |-> [Result("cleanup", <<>>) EXCEPT
                    !.printed = "Cleaned up " \o str(Cardinality(gone))
                                \o " files from " \o obj.storage_path]]

cleanup(obj, fs, ds) ==
    LET files == Existing(fs, ds, FilePaths(obj), 1)
        st == UnlinkAll([fs |-> fs, raised |-> "", msg |-> ""], files, 1)
    IN  [fs |-> st.fs,
         res |-> [Result("cleanup", <<>>) EXCEPT
                    !.files = files,
                    !.raised = st.raised,
                    !.msg = st.msg,
                    !.printed = IF st.raised # "" THEN ""
                                ELSE "Cleaned up " \o str(Len(files))
                                     \o " files from " \o obj.storage_path]]

----------------------------------------------------------------------------
(* tools/geolocation.py *)

\* Exception classes the `except Exception` clause catches, among those the
\* environment can raise during the provider call.
ExceptionSubclasses ==
    {"GeocoderTimedOut", "GeocoderServiceError", "ValueError", "Exception"}

\* What the provider hands back when it finds nothing or raises.
NoLocation == [latitude |-> "", longitude |-> "", address |-> ""]

GeoCall(fn, arg, outcome) ==
    [fn |-> fn, arg |-> arg,
     out |-> IF outcome.kind = "raise" THEN outcome.exc ELSE outcome.kind,
     val |-> IF outcome.kind = "location" THEN outcome.loc ELSE NoLocation]

\* A lookup that hands the two coordinates back in the other order.
address_to_coordinates_swapped(address, outcome) ==
    LET r == [Result("address_to_coordinates", <<PyStr(address)>>) EXCEPT
                !.calls = <<GeoCall("geocode", <<address>>, outcome)>>]
    IN  IF outcome.kind = "raise" THEN
            IF outcome.exc \in ExceptionSubclasses THEN
                [r EXCEPT !.ret = <<PyNone, PyNone>>,
                          !.printed = "Error geocoding " \o address \o ": "
                                      \o outcome.text]
            ELSE [r EXCEPT !.raised = outcome.exc, !.msg = outcome.text]
        ELSE IF outcome.kind = "location" THEN
            [r EXCEPT !.ret = <<PyFloat(outcome.loc.longitude),
                                PyFloat(outcome.loc.latitude)>>]
        ELSE [r EXCEPT !.ret = <<PyNone, PyNone>>]

\* A handler that catches the geopy timeout only.
address_to_coordinates_narrow(address, outcome) ==
    LET r == [Result("address_to_coordinates", <<PyStr(address)>>) EXCEPT
                !.calls = <<GeoCall("geocode", <<address>>, outcome)>>]
    IN  IF outcome.kind = "raise" THEN
            IF outcome.exc = "GeocoderTimedOut" THEN
                [r EXCEPT !.ret = <<PyNone, PyNone>>,
                          !.printed = "Error geocoding " \o address \o ": "
                                      \o outcome.text]
            ELSE [r EXCEPT !.raised = outcome.exc, !.msg = outcome.text]
        ELSE IF outcome.kind = "location" THEN
            [r EXCEPT !.ret = <<PyFloat(outcome.loc.latitude),
                                PyFloat(outcome.loc.longitude)>>]
        ELSE [r EXCEPT !.ret = <<PyNone, PyNone>>]

address_to_coordinates(address, outcome) ==
    LET r == [Result("address_to_coordinates", <<PyStr(address)>>) EXCEPT
                !.calls = <<GeoCall("geocode", <<address>>, outcome)>>]
    IN  IF outcome.kind = "raise" THEN
            IF outcome.exc \in ExceptionSubclasses THEN
                [r EXCEPT !.ret = <<PyNone, PyNone>>,
                          !.printed = "Error geocoding " \o address \o ": "
                                      \o outcome.text]
            ELSE [r EXCEPT !.raised = outcome.exc, !.msg = outcome.text]
        ELSE IF outcome.kind = "location" THEN
            [r EXCEPT !.ret = <<PyFloat(outcome.loc.latitude),
                                PyFloat(outcome.loc.longitude)>>]
        ELSE [r EXCEPT !.ret = <<PyNone, PyNone>>]

coordinates_to_address(latitude, longitude, outcome) ==
    LET r == [Result("coordinates_to_address",
                     <<PyFloat(latitude), PyFloat(longitude)>>) EXCEPT
                !.calls = <<GeoCall("reverse", <<latitude, longitude>>, outcome)>>]
    IN  IF outcome.kind = "raise" THEN
            IF outcome.exc \in ExceptionSubclasses THEN
                [r EXCEPT !.ret = <<PyNone>>,
                          !.printed = "Error reverse geocoding (" \o latitude
                                      \o ", " \o longitude \o "): " \o outcome.text]
            ELSE [r EXCEPT !.raised = outcome.exc, !.msg = outcome.text]
        ELSE IF outcome.kind = "location" THEN
            [r EXCEPT !.ret = <<PyStr(outcome.loc.address)>>]
        ELSE [r EXCEPT !.ret = <<PyNone>>]

----------------------------------------------------------------------------
(* Inputs. *)

SeqsUpTo(S, n) == UNION {[1 .. k -> S] : k \in 0 .. n}

IntList(xs) == PyListOf([i \in 1 .. Len(xs) |-> PyInt(xs[i])])

YearArgs ==
    {IntList(ys) : ys \in SeqsUpTo(YearVals, MaxYears)}
    \cup {PyTupleOf(<<PyInt(2023)>>), PyListOf(<<PyInt(2023), PyStrElem(2022)>>)}

DepartmentArgs ==
    {IntList(ds) : ds \in SeqsUpTo(DeptVals, MaxDepts)}
    \cup {PyTupleOf(<<PyInt(75)>>), PyListOf(<<PyStrElem(75)>>)}

StoragePathArgs == {PyNone}

DatasetUrlArgs == {DefaultDatasetUrl}

BadStatuses == {404, 500}

Locations ==
    {[latitude |-> "48.8566", longitude |-> "2.3522",
      address |-> "1 Place Vendome, 75001 Paris, France"],
     [latitude |-> "48.8584", longitude |-> "2.2945",
      address |-> "Tour Eiffel, Paris"],
     [latitude |-> "48.8606", longitude |-> "2.3376",
      address |-> "Louvre, Paris"],
     [latitude |-> "999.0", longitude |-> "999.0", address |-> ""]}

Addresses ==
    {"1 Place Vendome, 75001 Paris, France", "Louvre, Paris",
     "Nonexistent Street 999, Nowhere City", "Some address", "",
     "Tour Eiffel, Paris", "Place de la Concorde, Paris"}

GeoOutcomes ==
    {[kind |-> "location", loc |-> l, exc |-> "", text |-> ""] : l \in Locations}
    \cup {[kind |-> "none", loc |-> CHOOSE l \in Locations : TRUE,
           exc |-> "", text |-> ""]}
    \cup {[kind |-> "raise", loc |-> CHOOSE l \in Locations : TRUE,
           exc |-> e[1], text |-> e[2]] :
            e \in {<<"GeocoderTimedOut", "Timeout">>,
                   <<"GeocoderServiceError", "Service error">>,
                   <<"ValueError", "Invalid coordinates">>,
                   <<"Exception", "Unexpected error">>,
                   <<"KeyboardInterrupt", "">>}}

----------------------------------------------------------------------------
(* The state machine. *)

Notes == PathJoin(TempCache, "notes.txt")

\* The default cache directory outlives the process, so a run may start on
\* what earlier runs downloaded there: any set of (year, department) files,
\* each holding the body served for it, beside files that are not the cache's.
Earlier == [constructed |-> TRUE, url |-> DefaultDatasetUrl, year |-> <<>>,
            departments |-> <<>>, storage_path |-> TempCache]

LeftBy(pairs, others) ==
    LET paths == {_get_filepath(Earlier, p[1], p[2]) : p \in pairs}
        pairAt(q) == CHOOSE p \in pairs : _get_filepath(Earlier, p[1], p[2]) = q
    IN  [q \in paths \cup others |->
            IF q \in paths
            THEN Body(_get_url(Earlier, pairAt(q)[1], pairAt(q)[2]))
            ELSE <<"text", "notes">>]

\* Executing the `def __init__` statement evaluates the default of
\* `departments` once: one list object, number 1, which every later call
\* made without that argument receives.  No instance exists yet.
DefaultList == 1

AtDefinition == [lists |-> <<DefaultDepartments>>, insts |-> <<>>]

Init ==
    /\ self = NoObject
    /\ \/ dirs = {} /\ disk = LeftBy({}, {})
       \/ /\ dirs = {TempCache}
          /\ \E pairs \in SUBSET (YearVals \X DeptVals) :
                disk = LeftBy(pairs, {Notes})
    /\ last = Result("", <<>>)
    /\ heap = AtDefinition

After(res) ==
    [res EXCEPT !.again = (last.op = "download" /\ last.raised = ""),
                !.retry = (/\ res.op = "download"
                           /\ last.op = "download" /\ last.raised # "")]

\* dataset = GeoDVFDataset(year, departments, storage_path, dataset_url)
Construct ==
    /\ ~self.constructed
    /\ \E year \in YearArgs, departments \in DepartmentArgs,
          storage_path \in StoragePathArgs, dataset_url \in DatasetUrlArgs :
          LET r == __init__(year, departments, storage_path, dataset_url) IN
          /\ self' = IF r.res.raised = "" THEN r.obj ELSE self
          /\ dirs' = dirs \cup r.mkdir
          /\ last' = After(r.res)
    /\ UNCHANGED <<disk, heap>>

GetUrls ==
    /\ self.constructed
    /\ LET urls == get_urls(self) IN
          last' = After([Result("get_urls", <<>>) EXCEPT
                            !.ret = [k \in 1 .. Len(urls) |-> PyStr(urls[k])]])
    /\ UNCHANGED <<self, dirs, disk, heap>>

\* The files download() would have to fetch: one request each at most, so
\* the answers to more requests than these are never looked at.
ToFetch(obj, fs, ds) ==
    {filepath \in {_get_filepath(obj, Pairs(obj)[k][1], Pairs(obj)[k][2]) :
                      k \in 1 .. Len(Pairs(obj))} : ~Exists(fs, ds, filepath)}

Download ==
    /\ self.constructed
    /\ \E ok \in 0 .. Cardinality(ToFetch(self, disk, dirs)), bad \in BadStatuses :
          LET r == download(self, disk, dirs, [ok |-> ok, bad |-> bad]) IN
          /\ disk' = r.fs
          /\ last' = After(r.res)
    /\ UNCHANGED <<self, dirs, heap>>

OpenDb ==
    /\ self.constructed
    /\ last' = After(open_db(self, disk, dirs))
    /\ UNCHANGED <<self, dirs, disk, heap>>

\* A cleanup() that also empties the lists it has just gone through.
CleanupForgetting ==
    /\ self.constructed
    /\ LET r == cleanup(self, disk, dirs) IN
          /\ disk' = r.fs
          /\ last' = After(r.res)
    /\ self' = [self EXCEPT !.year = <<>>, !.departments = <<>>]
    /\ UNCHANGED <<dirs, heap>>

Cleanup ==
    /\ self.constructed
    /\ LET r == cleanup(self, disk, dirs) IN
          /\ disk' = r.fs
          /\ last' = After(r.res)
    /\ UNCHANGED <<self, dirs, heap>>

AddressToCoordinates ==
    /\ \E address \in Addresses, outcome \in GeoOutcomes :
          last' = After(address_to_coordinates(address, outcome))
    /\ UNCHANGED <<self, dirs, disk, heap>>

CoordinatesToAddress ==
    /\ \E l \in Locations, outcome \in GeoOutcomes :
          last' = After(coordinates_to_address(l.latitude, l.longitude, outcome))
    /\ UNCHANGED <<self, dirs, disk, heap>>

Next ==
    \/ Construct
    \/ GetUrls
    \/ Download
    \/ OpenDb
    \/ Cleanup

Spec == Init /\ [][Next]_vars

\* The same calls, on a storage directory that holds no dataset file yet:
\* the directory is missing, or holds only files that are not the cache's.
InitFresh ==
    /\ self = NoObject
    /\ \/ dirs = {} /\ disk = LeftBy({}, {})
       \/ dirs = {TempCache} /\ disk = LeftBy({}, {Notes})
    /\ last = Result("", <<>>)
    /\ heap = AtDefinition

SpecFresh == InitFresh /\ [][Next]_vars

\* The geocoding helpers share nothing with the dataset: they are run alone.
InitGeo ==
    /\ self = NoObject
    /\ dirs = {}
    /\ disk = LeftBy({}, {})
    /\ last = Result("", <<>>)
    /\ heap = AtDefinition

NextGeo ==
    \/ AddressToCoordinates
    \/ CoordinatesToAddress

SpecGeo == InitGeo /\ [][NextGeo]_vars

----------------------------------------------------------------------------
(* List identity.  `self.departments = departments if departments else []` *)
(* stores a reference: to the list the parameter is bound to when that     *)
(* list is non-empty, to a new empty list otherwise.                       *)

\* The heap after line 48 and the list the new instance refers to, the
\* parameter being bound to list `ref`.
BindDepartments(lists, ref) ==
    IF lists[ref] # <<>> THEN [lists |-> lists, ref |-> ref]
    ELSE [lists |-> Append(lists, <<>>), ref |-> Len(lists) + 1]

NewInstance(ref, defaulted) ==
    [departments |-> ref, defaulted |-> defaulted, touched |-> FALSE]

\* Lists a caller passes explicitly, each a new object of the caller's.
ExplicitLists == {<<>>, <<75>>}

\* What a holder appends to its list.
Appended == {95}

\* GeoDVFDataset(year=[...]) : departments is bound to the default list.
ConstructDefault ==
    /\ Len(heap.insts) < MaxInstances
    /\ LET b == BindDepartments(heap.lists, DefaultList) IN
          heap' = [lists |-> b.lists,
                   insts |-> Append(heap.insts, NewInstance(b.ref, TRUE))]
    /\ UNCHANGED <<self, dirs, disk, last>>

\* GeoDVFDataset(year=[...], departments=[...]) on a list made for the call.
ConstructExplicit ==
    /\ Len(heap.insts) < MaxInstances
    /\ \E xs \in ExplicitLists :
          LET given == Append(heap.lists, xs)
              b == BindDepartments(given, Len(given))
          IN  heap' = [lists |-> b.lists,
                       insts |-> Append(heap.insts, NewInstance(b.ref, FALSE))]
    /\ UNCHANGED <<self, dirs, disk, last>>

\* instance.departments.append(d)
AppendDepartment ==
    /\ \E i \in DOMAIN heap.insts, d \in Appended :
          LET ref == heap.insts[i].departments IN
          /\ Len(heap.lists[ref]) < MaxListLen
          /\ heap' = [lists |-> [heap.lists EXCEPT ![ref] = Append(@, d)],
                      insts |-> [heap.insts EXCEPT ![i].touched = TRUE]]
    /\ UNCHANGED <<self, dirs, disk, last>>

\* instance.departments.pop()
PopDepartment ==
    /\ \E i \in DOMAIN heap.insts :
          LET ref == heap.insts[i].departments IN
          /\ heap.lists[ref] # <<>>
          /\ heap' = [lists |-> [heap.lists EXCEPT
                                   ![ref] = SubSeq(@, 1, Len(@) - 1)],
                      insts |-> [heap.insts EXCEPT ![i].touched = TRUE]]
    /\ UNCHANGED <<self, dirs, disk, last>>

InitAlias ==
    /\ self = NoObject
    /\ dirs = {}
    /\ disk = LeftBy({}, {})
    /\ last = Result("", <<>>)
    /\ heap = AtDefinition

NextAlias ==
    \/ ConstructDefault
    \/ ConstructExplicit
    \/ AppendDepartment
    \/ PopDepartment

SpecAlias == InitAlias /\ [][NextAlias]_vars

----------------------------------------------------------------------------
(* Vocabulary of the properties, stated on sets and indices rather than    *)
(* with the loops of the methods.                                          *)

Range(f) == {f[i] : i \in DOMAIN f}

NPairs(obj) == Len(obj.year) * Len(obj.departments)

\* The pair at 1-based position k of the years-major, departments-minor order.
PairAt(obj, k) ==
    <<obj.year[((k - 1) \div Len(obj.departments)) + 1],
      obj.departments[((k - 1) % Len(obj.departments)) + 1]>>

PairSet(obj) == Range(obj.year) \X Range(obj.departments)

DerivedPaths(obj) == {_get_filepath(obj, p[1], p[2]) : p \in PairSet(obj)}

\* The elements of a set of positions, in ascending order.
Ascending(ks) ==
    [i \in 1 .. Cardinality(ks) |->
        CHOOSE k \in ks : Cardinality({j \in ks : j < k}) = i - 1]

IsPrefix(s, t) == Len(s) <= Len(t) /\ \A i \in 1 .. Len(s) : s[i] = t[i]

UrlsAsked(res) == [i \in 1 .. Len(res.calls) |-> res.calls[i].arg[1]]

----------------------------------------------------------------------------
(* C1: a download() that directly follows a download() of the same object  *)
(* that returned normally issues no HTTP request, returns normally, and    *)
(* reports 0 downloaded and len(years) * len(departments) skipped.         *)
C1_SecondDownloadSkipsAll ==
    (last.op = "download" /\ last.again) =>
        /\ last.calls = <<>>
        /\ last.raised = ""
        /\ last.downloaded = 0
        /\ last.skipped = NPairs(self)
        /\ last.printed = "Download complete: 0 new files, "
                          \o IntToStr(NPairs(self)) \o " existing files"

C1_Witness ==
    /\ last.op = "download" /\ last.again
    /\ self.year = <<2022, 2023>> /\ self.departments = <<75, 92>>
    /\ last.skipped = 4

(* C2: with the files of every pair of a configuration A on disk, the      *)
(* download() of a configuration B that contains A's pairs requests only   *)
(* pairs of B that are not pairs of A; when exactly A's files are there it *)
(* requests each missing pair once, in years-major, departments-minor      *)
(* order (all of them when it returns, a prefix when a response aborts it).*)
C2_Missing(pairsA) ==
    Ascending({k \in 1 .. NPairs(self) :
                 /\ PairAt(self, k) \notin pairsA
                 /\ \A j \in 1 .. k - 1 : PairAt(self, j) # PairAt(self, k)})

\* A matters through its set of pairs, years x departments, alone.
C2_IncrementalGrowth ==
    [][(last'.op = "download" /\ self.constructed) =>
        \A years \in SUBSET YearVals, departments \in SUBSET DeptVals :
            LET pairsA == years \X departments
                pathsA == {_get_filepath(self, p[1], p[2]) : p \in pairsA}
                asked == UrlsAsked(last')
                missing == C2_Missing(pairsA)
                expected == [i \in 1 .. Len(missing) |->
                                _get_url(self, PairAt(self, missing[i])[1],
                                         PairAt(self, missing[i])[2])]
            IN  (pairsA \subseteq PairSet(self) /\ pathsA \subseteq DOMAIN disk) =>
                    /\ \A i \in 1 .. Len(asked) :
                          \E p \in PairSet(self) \ pairsA :
                              asked[i] = _get_url(self, p[1], p[2])
                    /\ (DerivedPaths(self) \cap DOMAIN disk = pathsA) =>
                          /\ IsPrefix(asked, expected)
                          /\ last'.raised = "" => asked = expected]_vars

C2_Witness ==
    /\ last.op = "download" /\ last.raised = ""
    /\ self.year = <<2022, 2023>> /\ self.departments = <<75, 92>>
    /\ UrlsAsked(last) = <<_get_url(self, 2022, 75), _get_url(self, 2022, 92)>>
    /\ last.skipped = 2

(* C3: when a response of download() has a status other than 200, the call *)
(* raises RuntimeError naming that URL and status, that request is the     *)
(* last one, the failing pair gets no file, and every file written earlier *)
(* in the call, like every file that was there before, stays.              *)
C3_AbortOnFirstBadResponse ==
    [][(last'.op = "download"
        /\ \E i \in 1 .. Len(last'.calls) : last'.calls[i].out # "200") =>
        LET n == Len(last'.calls)
            failing == last'.calls[n]
        IN  /\ last'.raised = "RuntimeError"
            /\ last'.msg = "Failed to download " \o failing.arg[1] \o ": "
                           \o failing.out
            /\ failing.out # "200"
            /\ \A i \in 1 .. n - 1 : last'.calls[i].out = "200"
            /\ \E k \in 1 .. NPairs(self) :
                  LET p == PairAt(self, k) IN
                  /\ failing.arg[1] = _get_url(self, p[1], p[2])
                  /\ _get_filepath(self, p[1], p[2]) \notin DOMAIN disk'
                  /\ \A i \in 1 .. n - 1 : \E j \in 1 .. k - 1 :
                        LET q == PairAt(self, j) IN
                        /\ last'.calls[i].arg[1] = _get_url(self, q[1], q[2])
                        /\ _get_filepath(self, q[1], q[2]) \notin DOMAIN disk
                        /\ _get_filepath(self, q[1], q[2]) \in DOMAIN disk'
                        /\ disk'[_get_filepath(self, q[1], q[2])]
                              = Body(last'.calls[i].arg[1])
            /\ \A f \in DOMAIN disk : f \in DOMAIN disk' /\ disk'[f] = disk[f]
            /\ Cardinality(DOMAIN disk') = Cardinality(DOMAIN disk) + n - 1]_vars

C3_Witness ==
    /\ last.op = "download" /\ last.raised = "RuntimeError"
    /\ self.year = <<2022, 2023>> /\ self.departments = <<75, 92>>
    /\ Len(last.calls) = 2 /\ last.downloaded = 1 /\ last.skipped = 0
    /\ _get_filepath(self, 2022, 75) \in DOMAIN disk
    /\ _get_filepath(self, 2022, 92) \notin DOMAIN disk
    /\ _get_filepath(self, 2023, 75) \notin DOMAIN disk

(* C4: cleanup() removes nothing but files at derived paths of the         *)
(* object's configuration: every other file of the storage directory keeps *)
(* its content, no file appears, and the storage directory still exists.   *)
C4_CleanupFrame ==
    [][last'.op = "cleanup" =>
        /\ \A f \in DOMAIN disk :
              f \notin DerivedPaths(self) => f \in DOMAIN disk' /\ disk'[f] = disk[f]
        /\ DOMAIN disk' \subseteq DOMAIN disk
        /\ \A f \in DOMAIN disk' : disk'[f] = disk[f]
        /\ self.storage_path \in dirs'
        /\ dirs' = dirs
        /\ self' = self]_vars

C4_Witness ==
    /\ last.op = "cleanup" /\ last.raised = ""
    /\ self.year = <<2023>> /\ self.departments = <<75>>
    /\ last.files = <<_get_filepath(self, 2023, 75)>>
    /\ DOMAIN disk = {Notes, _get_filepath(self, 2022, 75),
                      _get_filepath(self, 2023, 92)}
    /\ self.storage_path \in dirs

(* C5: cleanup() returns normally for every accepted configuration, leaves *)
(* no file at a derived path, and reports the number of files it removed.  *)
C5_CleanupCompletes ==
    last.op = "cleanup" =>
        /\ last.raised = ""
        /\ DerivedPaths(self) \cap DOMAIN disk = {}
        /\ last.printed = "Cleaned up " \o IntToStr(Cardinality(Range(last.files)))
                          \o " files from " \o self.storage_path

(* C6: open_db() raises FileNotFoundError exactly when no derived path of  *)
(* the configuration exists; otherwise it loads the derived paths that     *)
(* exist, in years-major, departments-minor order, leaving out the absent. *)
C6_Present ==
    Ascending({k \in 1 .. NPairs(self) :
                 _get_filepath(self, PairAt(self, k)[1], PairAt(self, k)[2])
                    \in DOMAIN disk})

C6_OpenDbLoadsWhatExists ==
    last.op = "open_db" =>
        LET present == C6_Present
            expected == [i \in 1 .. Len(present) |->
                            _get_filepath(self, PairAt(self, present[i])[1],
                                          PairAt(self, present[i])[2])]
        IN  /\ last.raised \in {"", "FileNotFoundError"}
            /\ last.raised = "FileNotFoundError"
                  <=> DerivedPaths(self) \cap DOMAIN disk = {}
            /\ last.raised = "" =>
                  /\ last.files = expected
                  /\ last.ret = [i \in 1 .. Len(expected) |->
                                    Rows(disk[expected[i]])]
            /\ last.raised # "" => last.files = <<>> /\ last.ret = <<>>

C6_Witness ==
    /\ last.op = "open_db" /\ last.raised = ""
    /\ self.year = <<2022, 2023>> /\ self.departments = <<75, 92>>
    /\ last.files = <<_get_filepath(self, 2022, 92), _get_filepath(self, 2023, 75)>>

(* C7: the constructor raises ValueError exactly when year or departments  *)
(* is not a list of integers, and then sets no attribute, creates no       *)
(* directory and leaves the filesystem and the caller's object as they were.*)
C7_IsIntList(x) == x.t = "list" /\ \A i \in 1 .. Len(x.v) : x.v[i].t = "int"

C7_ConstructionValidation ==
    [][last'.op = "__init__" =>
        LET bad == ~C7_IsIntList(last'.args[1]) \/ ~C7_IsIntList(last'.args[2])
        IN  /\ last'.raised = "ValueError" <=> bad
            /\ bad => /\ last'.attrs = {}
                      /\ dirs' = dirs
                      /\ disk' = disk
                      /\ self' = self
            /\ ~bad => /\ last'.attrs = {"url", "year", "departments", "storage_path"}
                       /\ self'.constructed
                       /\ self'.storage_path \in dirs']_vars

C7_Witness ==
    /\ last.op = "__init__" /\ last.raised = "ValueError"
    /\ C7_IsIntList(last.args[1]) /\ last.args[2].t = "list"
    /\ last.attrs = {}
    /\ dirs = {}
    /\ ~self.constructed

(* C8: in both lookup directions, an exception of class Exception raised   *)
(* by the provider call (timeout, service error, any other) is swallowed:  *)
(* the call returns the absent value, (None, None) or None, and raises     *)
(* nothing.                                                                *)
C8_ProviderExceptions ==
    {"GeocoderTimedOut", "GeocoderServiceError", "ValueError", "Exception"}

C8_GeocodingErrorsSwallowed ==
    (/\ last.op \in {"address_to_coordinates", "coordinates_to_address"}
     /\ last.calls[1].out \in C8_ProviderExceptions) =>
        /\ last.raised = ""
        /\ last.op = "address_to_coordinates" => last.ret = <<PyNone, PyNone>>
        /\ last.op = "coordinates_to_address" => last.ret = <<PyNone>>

C8_Witness ==
    /\ last.op = "coordinates_to_address"
    /\ last.calls = <<[fn |-> "reverse", arg |-> <<"999.0", "999.0">>,
                       out |-> "ValueError", val |-> NoLocation]>>
    /\ last.raised = ""
    /\ last.ret = <<PyNone>>

(* C9: get_urls() returns len(years) * len(departments) URLs, the one at   *)
(* 0-based position i * len(departments) + j being                         *)
(* {baseUrl}/{years[i]}/departements/{departments[j]}.csv.gz.              *)
C9_UrlsInOrder ==
    last.op = "get_urls" =>
        /\ Len(last.ret) = Len(self.year) * Len(self.departments)
        /\ \A i \in 0 .. Len(self.year) - 1, j \in 0 .. Len(self.departments) - 1 :
              last.ret[(i * Len(self.departments) + j) + 1]
                = PyStr(self.url \o "/" \o IntToStr(self.year[i + 1])
                        \o "/departements/" \o IntToStr(self.departments[j + 1])
                        \o ".csv.gz")

C9_Witness ==
    /\ last.op = "get_urls"
    /\ self.year = <<2022, 2023>> /\ self.departments = <<75, 92>>
    /\ last.ret =
         <<PyStr("https://files.data.gouv.fr/geo-dvf/latest/csv/2022/departements/75.csv.gz"),
           PyStr("https://files.data.gouv.fr/geo-dvf/latest/csv/2022/departements/92.csv.gz"),
           PyStr("https://files.data.gouv.fr/geo-dvf/latest/csv/2023/departements/75.csv.gz"),
           PyStr("https://files.data.gouv.fr/geo-dvf/latest/csv/2023/departements/92.csv.gz")>>

(* C10: within one storage directory _get_filepath sends distinct pairs of *)
(* integers to distinct paths, each being                                  *)
(* {storagePath}/{year}_{department}.csv.gz; so a file at the derived path *)
(* of a pair always holds the body served for that very pair.              *)
C10_FilepathInjective ==
    self.constructed =>
        /\ Cardinality({_get_filepath(self, p[1], p[2]) : p \in PathInts \X PathInts})
              = Cardinality(PathInts \X PathInts)
        /\ \A p \in PairSet(self) :
              /\ _get_filepath(self, p[1], p[2])
                    = self.storage_path \o "/" \o IntToStr(p[1]) \o "_"
                      \o IntToStr(p[2]) \o ".csv.gz"
              /\ _get_filepath(self, p[1], p[2]) \in DOMAIN disk =>
                    disk[_get_filepath(self, p[1], p[2])]
                       = Body(_get_url(self, p[1], p[2]))

C10_Witness ==
    /\ last.op = "download" /\ last.raised = ""
    /\ self.year = <<2022, 2023>> /\ self.departments = <<75, 92>>
    /\ last.downloaded = 2 /\ last.skipped = 2
    /\ UrlsAsked(last) = <<_get_url(self, 2022, 92), _get_url(self, 2023, 75)>>
    /\ DerivedPaths(self) \subseteq DOMAIN disk

(* C11: on a configuration whose years or whose departments are empty,     *)
(* get_urls() returns the empty list, and download() issues no HTTP        *)
(* request, leaves every file as it was, and returns normally reporting    *)
(* 0 downloaded and 0 skipped.                                             *)
C11_EmptyConfiguration ==
    [][(self.constructed /\ (self.year = <<>> \/ self.departments = <<>>)) =>
        /\ last'.op = "get_urls" => last'.ret = <<>> /\ last'.raised = ""
        /\ last'.op = "download" =>
              /\ last'.calls = <<>>
              /\ disk' = disk
              /\ last'.raised = ""
              /\ last'.downloaded = 0 /\ last'.skipped = 0
              /\ last'.printed
                    = "Download complete: 0 new files, 0 existing files"]_vars

C11_Witness ==
    /\ last.op = "download"
    /\ self.year = <<2022, 2023>> /\ self.departments = <<>>
    /\ last.printed = "Download complete: 0 new files, 0 existing files"
    /\ Notes \in DOMAIN disk
    /\ _get_filepath(self, 2022, 75) \in DOMAIN disk

(* C12: address_to_coordinates(address) calls the provider's geocode once, *)
(* with the address it was given; it returns the (latitude, longitude) of  *)
(* the location the provider found, and (None, None), raising nothing,     *)
(* when the provider found none. coordinates_to_address(lat, lon) calls    *)
(* reverse once with (lat, lon) and returns the address of the location    *)
(* found, or None when none was.                                           *)
C12_SingleProviderCall ==
    /\ last.op = "address_to_coordinates" =>
          /\ Len(last.calls) = 1
          /\ last.calls[1].fn = "geocode"
          /\ last.calls[1].arg = <<last.args[1].v>>
          /\ last.calls[1].out = "location" =>
                /\ last.raised = ""
                /\ last.ret = <<PyFloat(last.calls[1].val.latitude),
                                PyFloat(last.calls[1].val.longitude)>>
          /\ last.calls[1].out = "none" =>
                last.raised = "" /\ last.ret = <<PyNone, PyNone>>
    /\ last.op = "coordinates_to_address" =>
          /\ Len(last.calls) = 1
          /\ last.calls[1].fn = "reverse"
          /\ last.calls[1].arg = <<last.args[1].v, last.args[2].v>>
          /\ last.calls[1].out = "location" =>
                /\ last.raised = ""
                /\ last.ret = <<PyStr(last.calls[1].val.address)>>
          /\ last.calls[1].out = "none" =>
                last.raised = "" /\ last.ret = <<PyNone>>

C12_Witness ==
    /\ last.op = "address_to_coordinates"
    /\ last.args = <<PyStr("Tour Eiffel, Paris")>>
    /\ last.calls[1].arg = <<"Tour Eiffel, Paris">>
    /\ last.calls[1].out = "location"
    /\ last.ret = <<PyFloat("48.8584"), PyFloat("2.2945")>>

C12_WitnessNone ==
    /\ last.op = "coordinates_to_address"
    /\ last.calls[1].arg = <<"48.8566", "2.3522">>
    /\ last.calls[1].out = "none"
    /\ last.ret = <<PyNone>>

(* C13: once an object is constructed, no get_urls(), download(),          *)
(* open_db() or cleanup() call, returning or raising, changes its year,    *)
(* departments, storage_path or url; such a call changes at most the files *)
(* at the derived paths of the storage directory, and get_urls() and       *)
(* open_db() change no file at all.                                        *)
C13_ConfigurationFixed ==
    [][self.constructed =>
        /\ self'.constructed
        /\ self'.year = self.year
        /\ self'.departments = self.departments
        /\ self'.storage_path = self.storage_path
        /\ self'.url = self.url
        /\ dirs' = dirs
        /\ \A f \in (DOMAIN disk \cup DOMAIN disk') \ DerivedPaths(self) :
              f \in DOMAIN disk /\ f \in DOMAIN disk' /\ disk'[f] = disk[f]
        /\ last'.op \in {"get_urls", "open_db"} => disk' = disk]_vars

C13_Witness ==
    /\ last.op = "cleanup" /\ last.again
    /\ self.year = <<2023, 2022>> /\ self.departments = <<92>>
    /\ self.storage_path = TempCache /\ self.url = DefaultDatasetUrl
    /\ DerivedPaths(self) \cap DOMAIN disk = {}
    /\ _get_filepath(self, 2022, 75) \in DOMAIN disk

(* C14: every instance constructed without a departments argument holds    *)
(* the four codes 75, 92, 93, 94 in a list of its own: no two such         *)
(* instances refer to one list, and as long as an instance's holder has    *)
(* not changed its list the instance still holds the four codes, whatever  *)
(* was done to the lists of instances constructed before or after it.      *)
C14_DefaultCopiedPerConstruction ==
    /\ \A i \in DOMAIN heap.insts :
          (heap.insts[i].defaulted /\ ~heap.insts[i].touched) =>
              heap.lists[heap.insts[i].departments] = <<75, 92, 93, 94>>
    /\ \A i, j \in DOMAIN heap.insts :
          (i # j /\ heap.insts[i].defaulted /\ heap.insts[j].defaulted) =>
              heap.insts[i].departments # heap.insts[j].departments

(* C15: when a download() raised on a response that was not 200, the next  *)
(* download() of the same object requests no pair whose file the failed    *)
(* call wrote, counts as skipped every pair the failed call had got past,  *)
(* makes its first request for the pair whose response had failed, and,    *)
(* when every response it gets is 200, returns with a file at every        *)
(* derived path.                                                           *)
C15_ResumeAfterFailure ==
    [][(/\ self.constructed
        /\ last.op = "download" /\ last.raised = "RuntimeError"
        /\ last'.op = "download") =>
        LET before == UrlsAsked(last)
            failed == before[Len(before)]
            written == {before[i] : i \in 1 .. Len(before) - 1}
            asked == UrlsAsked(last')
        IN  /\ \A i \in 1 .. Len(asked) : asked[i] \notin written
            /\ last'.skipped >= last.skipped + last.downloaded
            /\ Len(asked) >= 1 /\ asked[1] = failed
            /\ (\A i \in 1 .. Len(asked) : last'.calls[i].out = "200") =>
                  /\ last'.raised = ""
                  /\ DerivedPaths(self) \subseteq DOMAIN disk']_vars

C15_Witness ==
    /\ last.op = "download" /\ last.retry /\ last.raised = ""
    /\ self.year = <<2022, 2023>> /\ self.departments = <<75, 92>>
    /\ UrlsAsked(last) = <<_get_url(self, 2023, 75), _get_url(self, 2023, 92)>>
    /\ last.skipped = 2 /\ last.downloaded = 2
    /\ DerivedPaths(self) \subseteq DOMAIN disk

C17_AfterNormalDownload ==
    /\ (last.op = "download" /\ last.raised = "") =>
          /\ DerivedPaths(self) \subseteq DOMAIN disk
          /\ last.downloaded + last.skipped = Len(self.year) * Len(self.departments)
          /\ last.downloaded = Len(last.calls)
    /\ (last.op = "open_db" /\ last.again) =>
          /\ last.raised \in {"", "FileNotFoundError"}
          /\ last.raised = "FileNotFoundError" =>
                (self.year = <<>> \/ self.departments = <<>>)

C17_Witness ==
    /\ last.op = "open_db" /\ last.again /\ last.raised = ""
    /\ self.year = <<2022, 2023>> /\ self.departments = <<75, 92>>
    /\ Len(last.files) = 4
    /\ DerivedPaths(self) \subseteq DOMAIN disk

C17_WitnessNoPairs ==
    /\ last.op = "open_db" /\ last.again /\ last.raised = "FileNotFoundError"
    /\ self.year = <<2022>> /\ self.departments = <<>>

====
